---- MODULE Spec2Model ----
(***************************************************************************)
(* try_as: derive macros From, TryInto, TryAsRef, TryAsMut and             *)
(* TypedContainer for enums that enumerate a set of types.                 *)
(*                                                                         *)
(* The model has two phases.  At compile time the five derive entry points *)
(* of macros/src/lib.rs run parse_enum_definition over the DeriveInput and *)
(* then one gen_* function; their result (a panic message, or the emitted  *)
(* impl blocks) is recorded per derive.  At run time a client program uses *)
(* the emitted impls on one container value, as the tests and the crate    *)
(* documentation do.                                                       *)
(***************************************************************************)
EXTENDS Integers, Sequences, FiniteSets, TLC

(* ------------------------------ bounds --------------------------------- *)
MaxVariants == 2
MaxFields == 2
MaxValue == 1

(* ------------------------------ inputs --------------------------------- *)
\* Written forms of the payload types a definition may mention.
Types == {"u8", "String", "bool"}
\* Named fields are never read by the macro; one written type is enough.
NamedFieldTypes == {"u8"}
\* Payload values; the payload's type is the static type of its variant.
Values == 0..MaxValue
\* Variant identifiers, by declaration position.
VariantIdents == <<"A", "B", "C", "D", "F", "G">>
EnumIdent == "E"

SeqsUpTo(S, n) == UNION {[1..k -> S] : k \in 0..n}

\* syn::Fields of one variant.
FieldsSet ==
    {[kind |-> "Unit", tys |-> <<>>]}
    \cup {[kind |-> "Named", tys |-> t] : t \in SeqsUpTo(NamedFieldTypes, MaxFields)}
    \cup {[kind |-> "Unnamed", tys |-> t] : t \in SeqsUpTo(Types, MaxFields)}

\* input.generics, by what the declared parameters do to the impls the
\* macros write outside the definition, with the bare path `E` and the
\* payload types as written (the macros themselves never read them):
\*   None         no generic parameter is declared;
\*   Transparent  `E` and every written payload type mean outside the
\*                definition what they mean inside: every parameter is a
\*                const parameter with a default, or a type parameter that
\*                a payload uses and whose default is the very type its
\*                name denotes outside (E<const N: usize = 0>);
\*   Opaque       the definition is well formed but `E` or a written
\*                payload type means something else, or nothing, outside:
\*                a const parameter without default (E<const N: usize>), a
\*                type parameter used by a payload without default or with
\*                a default that is another type (E<String = u8> with
\*                A(String), E<T> with A(T));
\*   Unused       a type or lifetime parameter that no payload uses: the
\*                definition itself is ill formed (E<T> with A(u8)).
GenericsSet == {"None", "Transparent", "Opaque", "Unused"}

\* syn::DeriveInput: the identifier, the generic parameters (type, lifetime
\* or const), the kind of item and, for an enum, its variants in
\* declaration order.  debug tells whether the definition also implements
\* Debug (as the enum of test_macros does); the macros do not read it, the
\* blanket impl of UnwrapInto requires it.
EnumInputs ==
    {[ident |-> EnumIdent, generics |-> g, data |-> "Enum", debug |-> dbg,
      variants |-> [i \in 1..Len(fs) |-> [ident |-> VariantIdents[i], fields |-> fs[i]]]] :
        g \in GenericsSet, dbg \in BOOLEAN, fs \in SeqsUpTo(FieldsSet, MaxVariants)}

OtherInputs ==
    {[ident |-> EnumIdent, generics |-> g, data |-> d, debug |-> dbg, variants |-> <<>>] :
        g \in GenericsSet, dbg \in BOOLEAN, d \in {"Struct", "Union"}}

DeriveInputs == EnumInputs \cup OtherInputs

(* ------------------------- validation errors --------------------------- *)
\* The panic messages of parse_enum_definition, under the names the
\* specification gives to the validation errors.
NotAVariantType == "try_as::Into can only be derived from enums."
MissingPayload == "Every variant must have at least one unnamed field."
NamedFieldsUnsupported == "Can't have variant with named fields."
TooManyFields == "Each enum variant can have at most one type."
DuplicatePayloadType == "Each enum variant type must be unique."
\* Option::unwrap on the empty field list of a variant written with empty parentheses.
UnwrapNone == "called Option::unwrap() on a None value"
\* Named by the specification; no panic of the macro crate carries it.
UnsupportedGenerics == "UnsupportedGenerics"
NoError == ""

(* ------------------------ parse_enum_definition ------------------------ *)
\* Mutant: the uniqueness test on the payload type is left out.
check_variant_nodup(variant, all_variant_types) ==
    IF variant.fields.kind = "Unit" THEN MissingPayload
    ELSE IF variant.fields.kind = "Named" THEN NamedFieldsUnsupported
    ELSE IF Len(variant.fields.tys) > 1 THEN TooManyFields
    ELSE IF Len(variant.fields.tys) = 0 THEN UnwrapNone
    ELSE NoError

\* The body of the loop over the variants: the match on variant.fields.
\* Yields the panic message, or NoError when the field type is accepted.
check_variant(variant, all_variant_types) ==
    IF variant.fields.kind = "Unit" THEN MissingPayload
    ELSE IF variant.fields.kind = "Named" THEN NamedFieldsUnsupported
    ELSE IF Len(variant.fields.tys) > 1 THEN TooManyFields
    ELSE IF Len(variant.fields.tys) = 0 THEN UnwrapNone
    ELSE IF variant.fields.tys[1] \in all_variant_types THEN DuplicatePayloadType
    ELSE NoError

\* EnumData, or the panic that aborted the extraction.
Parsed(ident, variants) ==
    [status |-> "ok", msg |-> NoError, ident |-> ident, variants |-> variants]
Panicked(msg) ==
    [status |-> "panic", msg |-> msg, ident |-> "", variants |-> <<>>]

RECURSIVE parse_variants(_, _, _, _)
parse_variants(input, i, all_variant_types, variants) ==
    IF i > Len(input.variants) THEN Parsed(input.ident, variants)
    ELSE LET variant == input.variants[i]
             msg == check_variant(variant, all_variant_types)
         IN IF msg # NoError THEN Panicked(msg)
            ELSE LET field_type == variant.fields.tys[1]
                 IN parse_variants(input, i + 1,
                                   all_variant_types \cup {field_type},
                                   Append(variants, [ident |-> variant.ident,
                                                     type_ |-> field_type]))

parse_enum_definition(input) ==
    IF input.data # "Enum" THEN Panicked(NotAVariantType)
    ELSE parse_variants(input, 1, {}, <<>>)

(* ------------------------------ gen_* ---------------------------------- *)
\* One emitted `impl <trait><type_> for <enum_ident>` whose method matches
\* on `Self::<ident>(a)`.  arms and arm_sep are used by the match block of
\* gen_typed_value only.
ImplBlock(trait, type_, enum_ident, ident) ==
    [trait |-> trait, ty |-> type_, for_ |-> enum_ident, ident |-> ident,
     arms |-> <<>>, arm_sep |-> ""]

gen_from_impls(enum_data) ==
    [i \in 1..Len(enum_data.variants) |->
        ImplBlock("From", enum_data.variants[i].type_, enum_data.ident,
                  enum_data.variants[i].ident)]

\* Mutant: the last variant gets no impl block.
gen_try_into_impl_short(enum_data) ==
    [i \in 1..(Len(enum_data.variants) - 1) |->
        ImplBlock("TryInto", enum_data.variants[i].type_, enum_data.ident,
                  enum_data.variants[i].ident)]

gen_try_into_impl(enum_data) ==
    [i \in 1..Len(enum_data.variants) |->
        ImplBlock("TryInto", enum_data.variants[i].type_, enum_data.ident,
                  enum_data.variants[i].ident)]

gen_try_as_ref(enum_data) ==
    [i \in 1..Len(enum_data.variants) |->
        ImplBlock("traits::TryAsRef", enum_data.variants[i].type_, enum_data.ident,
                  enum_data.variants[i].ident)]

gen_try_as_mut(enum_data) ==
    [i \in 1..Len(enum_data.variants) |->
        ImplBlock("traits::TryAsMut", enum_data.variants[i].type_, enum_data.ident,
                  enum_data.variants[i].ident)]

\* A single block `impl traits::TypedValue { fn type_id .. match self { .. } }`:
\* the header names no type after `for`, every arm ends with a comma and the
\* arms are joined with a further comma.
gen_typed_value(enum_data) ==
    << [trait |-> "traits::TypedValue", ty |-> "", for_ |-> "", ident |-> "",
        arms |-> [i \in 1..Len(enum_data.variants) |->
                    [enum_ident |-> enum_data.ident,
                     ident |-> enum_data.variants[i].ident,
                     type_ |-> enum_data.variants[i].type_,
                     comma |-> TRUE]],
        arm_sep |-> ","] >>

(* ------------------------- the derive entry points --------------------- *)
Capabilities == {"From", "TryInto", "TryAsRef", "TryAsMut", "TypedContainer"}

NotRun == [status |-> "notrun", msg |-> NoError, variants |-> <<>>, tokens |-> <<>>]

\* What a derive leaves behind: a panic of parse_enum_definition aborts the
\* expansion before anything is emitted, otherwise the tokens are returned.
Expand(enum_data, tokens) ==
    IF enum_data.status = "panic"
    THEN [status |-> "panic", msg |-> enum_data.msg, variants |-> <<>>, tokens |-> <<>>]
    ELSE [status |-> "ok", msg |-> NoError, variants |-> enum_data.variants,
          tokens |-> tokens]

(* ---------------------------- generated code --------------------------- *)
NoContainer == [live |-> FALSE, case |-> "", payload |-> -1]
NoResult == [ok |-> FALSE, val |-> -1, err |-> NoContainer, place |-> ""]

\* Mutant: the argument is dropped and a default payload is stored.
from_default(block, a) ==
    [live |-> TRUE, case |-> block.ident, payload |-> 0]

\* fn from(a) -> Self { Self::#ident(a) }
from(block, a) ==
    [live |-> TRUE, case |-> block.ident, payload |-> a]

\* Mutant: the failure value is rebuilt instead of handed back.
try_into_lossy(block, self) ==
    IF self.case = block.ident
    THEN [ok |-> TRUE, val |-> self.payload, err |-> NoContainer, place |-> ""]
    ELSE [ok |-> FALSE, val |-> -1, err |-> [self EXCEPT !.payload = 0], place |-> ""]

\* if let Self::#ident(a) = self { Ok(a) } else { Err(self) }
try_into(block, self) ==
    IF self.case = block.ident
    THEN [ok |-> TRUE, val |-> self.payload, err |-> NoContainer, place |-> ""]
    ELSE [ok |-> FALSE, val |-> -1, err |-> self, place |-> ""]

\* Mutant: the reference is handed out whatever variant is held.
try_as_ref_any(block, self) ==
    [ok |-> TRUE, val |-> self.payload, err |-> NoContainer, place |-> self.case]

\* if let Self::#ident(a) = self { Some(a) } else { None }
\* A reference is the place it points to (the field of variant `place`)
\* together with the value read through it.
try_as_ref(block, self) ==
    IF self.case = block.ident
    THEN [ok |-> TRUE, val |-> self.payload, err |-> NoContainer, place |-> self.case]
    ELSE NoResult

\* Mutant: the reference points to a copy of the payload, not into self.
try_as_mut_copy(block, self) ==
    IF self.case = block.ident
    THEN [ok |-> TRUE, val |-> self.payload, err |-> NoContainer, place |-> "copy"]
    ELSE NoResult

\* if let Self::#ident(a) = self { Some(a) } else { None }, by &mut.
try_as_mut(block, self) ==
    IF self.case = block.ident
    THEN [ok |-> TRUE, val |-> self.payload, err |-> NoContainer, place |-> self.case]
    ELSE NoResult

\* std::any::TypeId::of::<T>(): one identity per type, distinct types differ.
TypeIdOf(T) ==
    CASE T = "u8" -> 1
      [] T = "String" -> 2
      [] T = "bool" -> 3
      [] OTHER -> 0

(* ------------------------------- state --------------------------------- *)
VARIABLES
    input,     \* the DeriveInput handed to every derive of the definition
    derived,   \* per derive: not run, panicked with a message, or the tokens
    c,         \* the client's container value, NoContainer once moved out
    ret,       \* the last call of the client and what it returned
    prev,      \* the call before it
    x_mut      \* the Option<&mut T> the client holds, NoResult without one

vars == <<input, derived, c, ret, prev, x_mut>>

NoCall == [op |-> "none", ty |-> "", arg |-> -1, self |-> NoContainer,
           ok |-> FALSE, val |-> -1, err |-> NoContainer, place |-> ""]
NoPrev == [op |-> "none", ty |-> "", arg |-> -1]

Call(op, ty, arg, self, r) ==
    [op |-> op, ty |-> ty, arg |-> arg, self |-> self,
     ok |-> r.ok, val |-> r.val, err |-> r.err, place |-> r.place]

Range(s) == {s[i] : i \in 1..Len(s)}

\* The impl the compiler selects for `<trait><T> for E` among the emitted
\* blocks, and the types for which there is one.
ImplTypes(tokens) == {b.ty : b \in Range(tokens)}
BlockFor(tokens, T) == CHOOSE b \in Range(tokens) : b.ty = T

\* The traits an emitted header can name and the compiler can resolve.
KnownTraits ==
    {"From", "TryInto", "traits::TryAsRef", "traits::TryAsMut", "traits::TypedContainer"}

\* The host compiler accepts the tokens of one derive: every header names
\* an existing trait and a type after `for`, written `for #enum_ident`
\* without generic arguments around payload types written as in the
\* definition, which is well typed unless the parameters are Opaque; no
\* match has an empty arm (arms that end in a comma and are joined with a
\* comma).  Nothing emitted, nothing to reject.
Accepted(tokens) ==
    \A b \in Range(tokens) :
        /\ b.trait \in KnownTraits
        /\ b.for_ # ""
        /\ input.generics \in {"None", "Transparent"}
        /\ Len(b.arms) > 1 =>
              ~(b.arm_sep = "," /\ \A i \in 1..Len(b.arms) : b.arms[i].comma)

\* The program builds: the definition is well formed and no derive of the
\* list panicked or emitted tokens the compiler rejects.
ProgramCompiles ==
    /\ input.generics # "Unused"
    /\ \A cap \in Capabilities :
          \/ derived[cap].status = "notrun"
          \/ derived[cap].status = "ok" /\ Accepted(derived[cap].tokens)

\* The impls of a derive are usable by the client when the derive is in the
\* derive list, the program builds and it has not panicked at run time.
Compiled(cap) ==
    /\ derived[cap].status = "ok"
    /\ ProgramCompiles
    /\ ret.op # "panic"

Init ==
    /\ input \in DeriveInputs
    /\ derived = [cap \in Capabilities |-> NotRun]
    /\ c = NoContainer
    /\ ret = NoCall
    /\ prev = NoPrev
    /\ x_mut = NoResult

(* ------------------------------ compile time --------------------------- *)
Derive(cap, result) ==
    /\ derived[cap].status = "notrun"
    /\ ret.op = "none"
    /\ derived' = [derived EXCEPT ![cap] = result]
    /\ UNCHANGED <<input, c, ret, prev, x_mut>>

derive_from ==
    LET enum_data == parse_enum_definition(input)
    IN Derive("From", Expand(enum_data, gen_from_impls(enum_data)))

derive_try_int ==
    LET enum_data == parse_enum_definition(input)
    IN Derive("TryInto", Expand(enum_data, gen_try_into_impl(enum_data)))

derive_try_as_ref ==
    LET enum_data == parse_enum_definition(input)
    IN Derive("TryAsRef", Expand(enum_data, gen_try_as_ref(enum_data)))

derive_try_as_mut ==
    LET enum_data == parse_enum_definition(input)
    IN Derive("TryAsMut", Expand(enum_data, gen_try_as_mut(enum_data)))

derive_typed_value ==
    LET enum_data == parse_enum_definition(input)
    IN Derive("TypedContainer", Expand(enum_data, gen_typed_value(enum_data)))

(* -------------------------------- run time ----------------------------- *)
Shift == prev' = [op |-> ret.op, ty |-> ret.ty, arg |-> ret.arg]

\* let v = E::from(a)
From(T, a) ==
    /\ Compiled("From")
    /\ T \in ImplTypes(derived["From"].tokens)
    /\ c' = from(BlockFor(derived["From"].tokens, T), a)
    /\ ret' = Call("from", T, a, NoContainer, NoResult)
    /\ Shift
    /\ x_mut' = NoResult
    /\ UNCHANGED <<input, derived>>

\* let r: Result<T, E> = v.try_into()
TryInto(T) ==
    /\ Compiled("TryInto")
    /\ c.live
    /\ T \in ImplTypes(derived["TryInto"].tokens)
    /\ ret' = Call("try_into", T, -1, c, try_into(BlockFor(derived["TryInto"].tokens, T), c))
    /\ c' = NoContainer
    /\ Shift
    /\ x_mut' = NoResult
    /\ UNCHANGED <<input, derived>>

\* let v = r.unwrap_err()
UnwrapErr ==
    /\ ProgramCompiles
    /\ ret.op = "try_into"
    /\ ~ret.ok
    /\ c' = ret.err
    /\ ret' = Call("unwrap_err", ret.ty, -1, NoContainer, NoResult)
    /\ Shift
    /\ x_mut' = NoResult
    /\ UNCHANGED <<input, derived>>

\* let x_ref: Option<&T> = v.try_as_ref()
TryAsRef(T) ==
    /\ Compiled("TryAsRef")
    /\ c.live
    /\ T \in ImplTypes(derived["TryAsRef"].tokens)
    /\ ret' = Call("try_as_ref", T, -1, c, try_as_ref(BlockFor(derived["TryAsRef"].tokens, T), c))
    /\ Shift
    /\ x_mut' = NoResult
    /\ UNCHANGED <<input, derived, c>>

\* let x_mut: Option<&mut T> = v.try_as_mut()
TryAsMut(T) ==
    /\ Compiled("TryAsMut")
    /\ c.live
    /\ T \in ImplTypes(derived["TryAsMut"].tokens)
    /\ LET r == try_as_mut(BlockFor(derived["TryAsMut"].tokens, T), c)
       IN /\ ret' = Call("try_as_mut", T, -1, c, r)
          /\ x_mut' = r
    /\ Shift
    /\ UNCHANGED <<input, derived, c>>

\* let a: T = v.unwrap_into(): self.try_into().unwrap().  The blanket impl
\* exists where the Error type of TryInto, the enum itself, is Debug.  On
\* Err the program panics; the container was moved into the call and is
\* gone.
UnwrapInto(T) ==
    /\ Compiled("TryInto")
    /\ input.debug
    /\ c.live
    /\ T \in ImplTypes(derived["TryInto"].tokens)
    /\ LET r == try_into(BlockFor(derived["TryInto"].tokens, T), c)
       IN ret' = IF r.ok THEN Call("unwrap_into", T, -1, c, r)
                 ELSE Call("panic", T, -1, c, NoResult)
    /\ c' = NoContainer
    /\ Shift
    /\ x_mut' = NoResult
    /\ UNCHANGED <<input, derived>>

\* let x_ref: &T = v.unwrap_as_ref(): self.try_as_ref().unwrap().
UnwrapAsRef(T) ==
    /\ Compiled("TryAsRef")
    /\ c.live
    /\ T \in ImplTypes(derived["TryAsRef"].tokens)
    /\ LET r == try_as_ref(BlockFor(derived["TryAsRef"].tokens, T), c)
       IN ret' = IF r.ok THEN Call("unwrap_as_ref", T, -1, c, r)
                 ELSE Call("panic", T, -1, c, NoResult)
    /\ Shift
    /\ x_mut' = NoResult
    /\ UNCHANGED <<input, derived, c>>

\* let x_mut: &mut T = v.unwrap_as_mut(): self.try_as_mut().unwrap().
UnwrapAsMut(T) ==
    /\ Compiled("TryAsMut")
    /\ c.live
    /\ T \in ImplTypes(derived["TryAsMut"].tokens)
    /\ LET r == try_as_mut(BlockFor(derived["TryAsMut"].tokens, T), c)
       IN /\ ret' = IF r.ok THEN Call("unwrap_as_mut", T, -1, c, r)
                    ELSE Call("panic", T, -1, c, NoResult)
          /\ x_mut' = IF r.ok THEN r ELSE NoResult
    /\ Shift
    /\ UNCHANGED <<input, derived, c>>

\* *x_mut.unwrap() = w
DerefAssign(w) ==
    /\ x_mut.ok
    /\ ret.op # "panic"
    /\ c' = IF x_mut.place = c.case THEN [c EXCEPT !.payload = w] ELSE c
    /\ ret' = Call("write", ret.ty, w, c, NoResult)
    /\ Shift
    /\ x_mut' = NoResult
    /\ UNCHANGED <<input, derived>>

Next ==
    \/ derive_from
    \/ derive_try_int
    \/ derive_try_as_ref
    \/ derive_try_as_mut
    \/ derive_typed_value
    \/ \E T \in Types, a \in Values : From(T, a)
    \/ \E T \in Types : TryInto(T)
    \/ UnwrapErr
    \/ \E T \in Types : TryAsRef(T)
    \/ \E T \in Types : TryAsMut(T)
    \/ \E T \in Types : UnwrapInto(T)
    \/ \E T \in Types : UnwrapAsRef(T)
    \/ \E T \in Types : UnwrapAsMut(T)
    \/ \E w \in Values : DerefAssign(w)

Spec == Init /\ [][Next]_vars

(* ------------------------- type identification ------------------------ *)
\* match self { #enum_ident::#ident(_) => TypeId::of::<#type_>(), .. }
type_id(block, self) ==
    LET arm == CHOOSE a \in Range(block.arms) : a.ident = self.case
    IN TypeIdOf(arm.type_)

\* TypedContainer::holds: TypeId::of::<T>() == self.type_id()
holds(block, self, T) == TypeIdOf(T) = type_id(block, self)

(* ------------------- what the definition itself says ------------------- *)
\* Read off the DeriveInput alone, independently of parse_enum_definition.
SinglePayload(variant) ==
    variant.fields.kind = "Unnamed" /\ Len(variant.fields.tys) = 1

\* The payload type the definition declares for the variant named case.
TypeOfCase(in, case) ==
    LET variant == CHOOSE v \in Range(in.variants) : v.ident = case
    IN variant.fields.tys[1]

\* The case-level rules a to d of the validation sequence, for case i.
CaseError(in, i) ==
    LET fields == in.variants[i].fields
    IN IF Len(fields.tys) = 0 THEN MissingPayload
       ELSE IF fields.kind = "Named" THEN NamedFieldsUnsupported
       ELSE IF Len(fields.tys) > 1 THEN TooManyFields
       ELSE IF \E j \in 1..(i - 1) :
                  SinglePayload(in.variants[j]) /\ in.variants[j].fields.tys = fields.tys
            THEN DuplicatePayloadType
       ELSE NoError

\* The error of the earliest failing step of the validation sequence:
\* generics, then the kind of item, then the cases in declaration order.
ExpectedError(in) ==
    IF in.generics # "None" THEN UnsupportedGenerics
    ELSE IF in.data # "Enum" THEN NotAVariantType
    ELSE IF \A i \in 1..Len(in.variants) : CaseError(in, i) = NoError THEN NoError
    ELSE LET first == CHOOSE i \in 1..Len(in.variants) :
                          /\ CaseError(in, i) # NoError
                          /\ \A j \in 1..(i - 1) : CaseError(in, j) = NoError
         IN CaseError(in, first)

\* The (case_name, payload_type) pairs of the definition, in order.
CasesOf(in) ==
    [i \in 1..Len(in.variants) |->
        [ident |-> in.variants[i].ident, type_ |-> in.variants[i].fields.tys[1]]]

Ran == {cap \in Capabilities : derived[cap].status # "notrun"}
ImplCapabilities == {"From", "TryInto", "TryAsRef", "TryAsMut"}
TraitOf(cap) ==
    CASE cap = "From" -> "From"
      [] cap = "TryInto" -> "TryInto"
      [] cap = "TryAsRef" -> "traits::TryAsRef"
      [] cap = "TryAsMut" -> "traits::TryAsMut"
      [] OTHER -> "traits::TypedContainer"

(* -------------------------------- claims ------------------------------- *)
\* C1 Round-trip: a value converted into the container with From<T> and
\* then converted back with TryInto<T> for the same T comes back as Ok with
\* a value equal to the original; through the unwrap_into wrapper the same
\* conversion returns that value and does not panic.
C1_RoundTrip ==
    (prev.op = "from" /\ prev.ty = ret.ty)
        => /\ ret.op # "panic"
           /\ ret.op \in {"try_into", "unwrap_into"} => (ret.ok /\ ret.val = prev.arg)

C1_Witness ==
    /\ ret.op = "try_into" /\ prev.op = "from" /\ prev.ty = ret.ty
    /\ ret.ok /\ ret.val = 1 /\ Len(input.variants) = 2

\* C2 Identity on failure: TryInto<T2> on a container that holds a case of
\* another payload type fails, the Err value is the container as it was
\* before the call (same case, same payload), and converting that value
\* back to the held type succeeds with the original payload.
C2_IdentityOnFailure ==
    (ret.op = "try_into" /\ TypeOfCase(input, ret.self.case) # ret.ty)
        => /\ ~ret.ok
           /\ ret.err = ret.self
           /\ LET T == TypeOfCase(input, ret.self.case)
                  again == try_into(BlockFor(derived["TryInto"].tokens, T), ret.err)
              IN again.ok /\ again.val = ret.self.payload

C2_Witness ==
    /\ ret.op = "try_into" /\ ~ret.ok
    /\ TypeOfCase(input, ret.self.case) # ret.ty
    /\ ret.err.live /\ ret.err.payload = 1

\* C3 Projection exclusivity: try_as_ref and try_as_mut to T return a
\* reference to the held payload exactly when the container holds the case
\* whose payload type is T and the absent value otherwise, and the call
\* leaves the container's case and payload as they were.
C3_ProjectionExclusivity ==
    ret.op \in {"try_as_ref", "try_as_mut"}
        => /\ ret.ok <=> (TypeOfCase(input, ret.self.case) = ret.ty)
           /\ ret.ok => (ret.place = ret.self.case /\ ret.val = ret.self.payload)
           /\ ~ret.ok => (ret.place = "" /\ ret.val = -1)
           /\ c = ret.self

C3_Witness ==
    /\ ret.op = "try_as_mut" /\ ret.ok /\ ret.val = 1
    /\ prev.op = "try_as_ref" /\ prev.ty # ret.ty

\* C4 Mutation visibility: after a write of w through the reference that
\* try_as_mut to T returned, the container holds the same case with
\* payload w, projections to every other payload type are absent, and
\* try_as_ref to T on the same container yields a reference to w.
C4_MutationVisibility ==
    /\ ret.op = "write"
         => /\ c.live /\ c.case = ret.self.case /\ c.payload = ret.arg
            /\ \A T2 \in ImplTypes(derived["TryAsMut"].tokens) \ {ret.ty} :
                  ~try_as_mut(BlockFor(derived["TryAsMut"].tokens, T2), c).ok
            /\ Compiled("TryAsRef") =>
                  \A T2 \in ImplTypes(derived["TryAsRef"].tokens) \ {ret.ty} :
                      ~try_as_ref(BlockFor(derived["TryAsRef"].tokens, T2), c).ok
    /\ (ret.op = "try_as_ref" /\ prev.op = "write" /\ prev.ty = ret.ty)
         => (ret.ok /\ ret.val = prev.arg /\ ret.place = c.case)

C4_Witness ==
    /\ ret.op = "try_as_ref" /\ prev.op = "write" /\ prev.ty = ret.ty
    /\ ret.ok /\ ret.val = prev.arg /\ prev.arg = 1
    /\ Len(input.variants) = 2

\* C5 Type identification correctness: deriving TypedContainer for a valid
\* definition yields an implementation of traits::TypedContainer for the
\* container whose type_id reports, for a container built with any case,
\* the identity of that case's payload type and of no other case's type,
\* so that holds is true exactly for the held case's payload type.
C5_TypeIdentification ==
    (derived["TypedContainer"].status = "ok" /\ ExpectedError(input) = NoError)
        => \E block \in Range(derived["TypedContainer"].tokens) :
              /\ block.trait = "traits::TypedContainer"
              /\ block.for_ = input.ident
              /\ (Len(block.arms) > 1 =>
                     ~(block.arm_sep = "," /\ \A i \in 1..Len(block.arms) : block.arms[i].comma))
              /\ \A i \in 1..Len(input.variants), a \in Values :
                    LET self == [live |-> TRUE, case |-> input.variants[i].ident, payload |-> a]
                    IN \A T \in {TypeOfCase(input, v.ident) : v \in Range(input.variants)} :
                          holds(block, self, T) <=> (T = TypeOfCase(input, self.case))

\* C6 Generic rejection: a derive over a definition that declares a generic
\* parameter fails with UnsupportedGenerics and emits nothing, so a derive
\* that succeeds was run on a definition without generic parameters.
C6_GenericRejection ==
    \A cap \in Ran :
        /\ input.generics # "None" =>
              /\ derived[cap].status = "panic"
              /\ derived[cap].msg = UnsupportedGenerics
              /\ derived[cap].tokens = <<>>
        /\ derived[cap].status = "ok" => input.generics = "None"

\* C7 Payload uniqueness: when the extraction reaches a case whose payload
\* type is written like the payload type recorded for an earlier case it
\* fails with DuplicatePayloadType, and the payload types of a returned
\* schema are pairwise distinct.
C7_PayloadUniqueness ==
    \A cap \in Ran :
        /\ (/\ input.data = "Enum"
            /\ \E i \in 1..Len(input.variants) :
                  /\ \A j \in 1..(i - 1) : CaseError(input, j) = NoError
                  /\ CaseError(input, i) = DuplicatePayloadType)
              => (derived[cap].status = "panic" /\ derived[cap].msg = DuplicatePayloadType)
        /\ derived[cap].status = "ok" =>
              /\ \A i, j \in 1..Len(derived[cap].variants) :
                    i # j => derived[cap].variants[i].type_ # derived[cap].variants[j].type_
              /\ \A i, j \in 1..Len(input.variants) :
                    i # j => input.variants[i].fields.tys # input.variants[j].fields.tys

C7_Witness ==
    /\ derived["From"].status = "panic"
    /\ derived["From"].msg = DuplicatePayloadType
    /\ Len(input.variants) = 2
    /\ SinglePayload(input.variants[1]) /\ SinglePayload(input.variants[2])

\* C8 Case-shape validation: the first case that breaks a shape rule makes
\* the extraction fail with MissingPayload when it has no field at all
\* (however it is written), NamedFieldsUnsupported when its fields are
\* named, TooManyFields when it has more than one positional field; a
\* definition that is not an enum fails with NotAVariantType; every case of
\* a returned schema has exactly one unnamed field.
C8_CaseShape ==
    \A cap \in Ran :
        LET e == ExpectedError([input EXCEPT !.generics = "None"])
        IN /\ e \in {NotAVariantType, MissingPayload, NamedFieldsUnsupported, TooManyFields}
                => (derived[cap].status = "panic" /\ derived[cap].msg = e)
           /\ derived[cap].status = "ok" =>
                \A i \in 1..Len(input.variants) : SinglePayload(input.variants[i])

\* C9 Short-circuit ordering: the reported error is the error of the
\* earliest failing step (generics, kind of item, then the cases in order
\* with rules a to d inside each case); on a failure nothing of the schema
\* is returned and nothing is emitted; without a failing step the derive
\* succeeds.
C9_ShortCircuit ==
    \A cap \in Ran :
        IF ExpectedError(input) = NoError
        THEN derived[cap].status = "ok"
        ELSE /\ derived[cap].status = "panic"
             /\ derived[cap].msg = ExpectedError(input)
             /\ derived[cap].variants = <<>>
             /\ derived[cap].tokens = <<>>

\* C10 One implementation per case: a derive that passes validation has
\* extracted exactly the definition's (case_name, payload_type) pairs in
\* declaration order and emitted one impl block per case in that order
\* (TypedContainer: one block with one arm per case in that order); a
\* derive fails only when a validation step fails.
C10_OneImplPerCase ==
    \A cap \in Ran :
        /\ derived[cap].status = "ok" =>
              /\ derived[cap].variants = CasesOf(input)
              /\ cap \in ImplCapabilities =>
                    /\ Len(derived[cap].tokens) = Len(input.variants)
                    /\ \A i \in 1..Len(derived[cap].tokens) :
                          /\ derived[cap].tokens[i].trait = TraitOf(cap)
                          /\ derived[cap].tokens[i].for_ = input.ident
                          /\ derived[cap].tokens[i].ident = input.variants[i].ident
                          /\ derived[cap].tokens[i].ty = input.variants[i].fields.tys[1]
              /\ cap = "TypedContainer" =>
                    /\ Len(derived[cap].tokens) = 1
                    /\ Len(derived[cap].tokens[1].arms) = Len(input.variants)
                    /\ \A i \in 1..Len(input.variants) :
                          /\ derived[cap].tokens[1].arms[i].ident = input.variants[i].ident
                          /\ derived[cap].tokens[1].arms[i].type_ = input.variants[i].fields.tys[1]
                          /\ derived[cap].tokens[1].arms[i].enum_ident = input.ident
        /\ derived[cap].status = "panic" =>
              \/ input.data # "Enum"
              \/ \E i \in 1..Len(input.variants) : CaseError(input, i) # NoError

C10_Witness ==
    /\ \A cap \in Capabilities : derived[cap].status = "ok"
    /\ Len(input.variants) = 2
    /\ Len(derived["TryInto"].tokens) = 2
    /\ Len(derived["TypedContainer"].tokens[1].arms) = 2

====
